---- MODULE Spec2Model ----
(***************************************************************************)
(* Model of verify.py: the CiscoISR4331 device wrapper and its             *)
(* run_validation workflow (connect, find_latest_iosxe_file,               *)
(* validate_boot_statement, verify_ios_image_signature, disconnect).       *)
(*                                                                         *)
(* Python strings are sequences of one-character strings, so that          *)
(* splitlines, split, "in", lower and the ordering of list.sort are        *)
(* computed on the characters as the code computes them.  The session      *)
(* transport (netmiko ConnectHandler) is the environment: every one of its *)
(* operations either answers or raises, chosen nondeterministically.       *)
(***************************************************************************)
EXTENDS Integers, Sequences, FiniteSets, TLC

\* ---------------------------------------------------------------------
\* Bounds of the model
\* ---------------------------------------------------------------------

\* most lines in one "dir bootflash:" answer
MaxLines == 2

\* most top-level invocations made on the one CiscoISR4331 object
MaxCalls == 2

\* ---------------------------------------------------------------------
\* Characters and Python values
\* ---------------------------------------------------------------------

\* the line feed character
LF == "\n"

\* The characters of the model in increasing code point order.
CharOrder ==
    << LF, " ", "%", "(", ")", "-", ".",
       "0", "1", "2", "3", "4", "5", "6", "7", "8", "9", ":",
       "A", "B", "C", "D", "E", "F", "G", "H", "I", "J", "K", "L", "M",
       "N", "O", "P", "Q", "R", "S", "T", "U", "V", "W", "X", "Y", "Z",
       "a", "b", "c", "d", "e", "f", "g", "h", "i", "j", "k", "l", "m",
       "n", "o", "p", "q", "r", "s", "t", "u", "v", "w", "x", "y", "z" >>

Chars == { CharOrder[i] : i \in 1..Len(CharOrder) }

\* rank of a character in code point order (what str comparison uses)
Ord == [ c \in Chars |-> CHOOSE i \in 1..Len(CharOrder) : CharOrder[i] = c ]

UpperLetters ==
    << "A", "B", "C", "D", "E", "F", "G", "H", "I", "J", "K", "L", "M",
       "N", "O", "P", "Q", "R", "S", "T", "U", "V", "W", "X", "Y", "Z" >>

LowerLetters ==
    << "a", "b", "c", "d", "e", "f", "g", "h", "i", "j", "k", "l", "m",
       "n", "o", "p", "q", "r", "s", "t", "u", "v", "w", "x", "y", "z" >>

\* str.lower() on one character
LowerChar ==
    [ c \in Chars |->
        IF \E i \in 1..26 : UpperLetters[i] = c
        THEN LowerLetters[CHOOSE i \in 1..26 : UpperLetters[i] = c]
        ELSE c ]

\* Python None: a one-element tuple that is no string of characters
None == << "None" >>

\* marks a transport call that raised instead of returning text
Raised == << "Raised" >>

\* no answer recorded: the command was not issued in this invocation
NotSent == << "NotSent" >>

IsText(x) == x \notin { None, Raised, NotSent }

\* the truth test left out: every value counts as present
Truthy_always(x) == TRUE

\* truth value of a Python str-or-None ("not x" is its negation)
Truthy(x) == x # None /\ x # << >>

\* ---------------------------------------------------------------------
\* String operations used by the code
\* ---------------------------------------------------------------------

\* sub in s
Contains(s, sub) ==
    \E i \in 0..(Len(s) - Len(sub)) : SubSeq(s, i + 1, i + Len(sub)) = sub

\* s.lower()
Lower(s) == [ i \in 1..Len(s) |-> LowerChar[s[i]] ]

\* index of the first line feed of s, 0 when there is none
FirstLF(s) ==
    IF \E i \in 1..Len(s) : s[i] = LF
    THEN CHOOSE i \in 1..Len(s) : s[i] = LF /\ \A j \in 1..(i - 1) : s[j] # LF
    ELSE 0

RECURSIVE splitlines(_)
\* s.splitlines(): the lines of s, no empty last line after a final line feed
splitlines(s) ==
    IF s = << >> THEN << >>
    ELSE LET k == FirstLF(s)
         IN  IF k = 0 THEN << s >>
             ELSE << SubSeq(s, 1, k - 1) >> \o splitlines(SubSeq(s, k + 1, Len(s)))

IsSpace(c) == c \in { " ", LF }

\* length of the longest prefix of s whose characters all satisfy / fail IsSpace
SpanLen(s, space) ==
    IF \E i \in 1..Len(s) : IsSpace(s[i]) # space
    THEN (CHOOSE i \in 1..Len(s) :
            /\ IsSpace(s[i]) # space
            /\ \A j \in 1..(i - 1) : IsSpace(s[j]) = space) - 1
    ELSE Len(s)

RECURSIVE split(_)
\* s.split(): the maximal runs of non-whitespace characters of s
split(s) ==
    LET lead == SpanLen(s, TRUE)
        rest == SubSeq(s, lead + 1, Len(s))
        tok  == SpanLen(rest, FALSE)
    IN  IF rest = << >> THEN << >>
        ELSE << SubSeq(rest, 1, tok) >> \o split(SubSeq(rest, tok + 1, Len(rest)))

\* a < b for Python str: first differing character decides, a proper prefix is less
StrLess(a, b) ==
    \E i \in 1..Len(b) :
        /\ i - 1 <= Len(a)
        /\ SubSeq(a, 1, i - 1) = SubSeq(b, 1, i - 1)
        /\ \/ i = Len(a) + 1
           \/ i <= Len(a) /\ Ord[a[i]] < Ord[b[i]]

RECURSIVE InsertDescending(_, _)
\* x put into the descending list s, after the elements not less than x
InsertDescending(x, s) ==
    IF s = << >> THEN << x >>
    ELSE IF StrLess(Head(s), x) THEN << x >> \o s
         ELSE << Head(s) >> \o InsertDescending(x, Tail(s))

RECURSIVE InsertAscending(_, _)
InsertAscending(x, s) ==
    IF s = << >> THEN << x >>
    ELSE IF StrLess(x, Head(s)) THEN << x >> \o s
         ELSE << Head(s) >> \o InsertAscending(x, Tail(s))

RECURSIVE SortAscending(_)
\* list.sort() without reverse=True
SortAscending(s) ==
    IF s = << >> THEN << >>
    ELSE InsertAscending(s[Len(s)], SortAscending(SubSeq(s, 1, Len(s) - 1)))

RECURSIVE SortDescending(_)
\* ios_files.sort(reverse=True)
SortDescending(s) ==
    IF s = << >> THEN << >>
    ELSE InsertDescending(s[Len(s)], SortDescending(SubSeq(s, 1, Len(s) - 1)))

\* ---------------------------------------------------------------------
\* Literals of the code
\* ---------------------------------------------------------------------

\* ".bin"
BinSuffix ==
    <<".", "b", "i", "n">>

\* "boot system flash bootflash:"
BootTemplate ==
    <<"b", "o", "o", "t", " ", "s", "y", "s", "t", "e", "m", " ", "f", "l",
      "a", "s", "h", " ", "b", "o", "o", "t", "f", "l", "a", "s", "h", ":">>

\* "signature successfully"
SuccessMarker ==
    <<"s", "i", "g", "n", "a", "t", "u", "r", "e", " ", "s", "u", "c", "c",
      "e", "s", "s", "f", "u", "l", "l", "y">>

\* "dir bootflash:"
DirCommand ==
    <<"d", "i", "r", " ", "b", "o", "o", "t", "f", "l", "a", "s", "h", ":">>

\* "show run | include boot system"
ShowCommand ==
    <<"s", "h", "o", "w", " ", "r", "u", "n", " ", "|", " ", "i", "n", "c",
      "l", "u", "d", "e", " ", "b", "o", "o", "t", " ", "s", "y", "s", "t",
      "e", "m">>

\* "verify bootflash:"
VerifyTemplate ==
    <<"v", "e", "r", "i", "f", "y", " ", "b", "o", "o", "t", "f", "l", "a",
      "s", "h", ":">>

\* ---------------------------------------------------------------------
\* Answers the device can give (inputs of the model)
\* ---------------------------------------------------------------------

\* "isr4300-17.03.04.bin"
File_17_03_04 ==
    <<"i", "s", "r", "4", "3", "0", "0", "-", "1", "7", ".", "0", "3", ".",
      "0", "4", ".", "b", "i", "n">>

\* "isr4300-17.06.01.bin"
File_17_06_01 ==
    <<"i", "s", "r", "4", "3", "0", "0", "-", "1", "7", ".", "0", "6", ".",
      "0", "1", ".", "b", "i", "n">>

\* "router-boot-03.bin"
File_router ==
    <<"r", "o", "u", "t", "e", "r", "-", "b", "o", "o", "t", "-", "0", "3",
      ".", "b", "i", "n">>

\* "-rw- 100 isr4300-17.03.04.bin"
Line_17_03_04 ==
    <<"-", "r", "w", "-", " ", "1", "0", "0", " ", "i", "s", "r", "4", "3",
      "0", "0", "-", "1", "7", ".", "0", "3", ".", "0", "4", ".", "b", "i",
      "n">>

\* "-rw- 200 isr4300-17.06.01.bin"
Line_17_06_01 ==
    <<"-", "r", "w", "-", " ", "2", "0", "0", " ", "i", "s", "r", "4", "3",
      "0", "0", "-", "1", "7", ".", "0", "6", ".", "0", "1", ".", "b", "i",
      "n">>

\* "-rw- 300 router-boot-03.bin"
Line_router ==
    <<"-", "r", "w", "-", " ", "3", "0", "0", " ", "r", "o", "u", "t", "e",
      "r", "-", "b", "o", "o", "t", "-", "0", "3", ".", "b", "i", "n">>

\* "drwx 4096 tracelogs"
Line_dir ==
    <<"d", "r", "w", "x", " ", "4", "0", "9", "6", " ", "t", "r", "a", "c",
      "e", "l", "o", "g", "s">>

\* "-rw- 5 zz.bin (copy)"
Line_trailing ==
    <<"-", "r", "w", "-", " ", "5", " ", "z", "z", ".", "b", "i", "n", " ",
      "(", "c", "o", "p", "y", ")">>

\* ""
Line_blank ==
    <<>>

\* "isr4300-17.3.bin"
File_17_3 ==
    <<"i", "s", "r", "4", "3", "0", "0", "-", "1", "7", ".", "3", ".", "b",
      "i", "n">>

\* "isr4300-17.12.bin"
File_17_12 ==
    <<"i", "s", "r", "4", "3", "0", "0", "-", "1", "7", ".", "1", "2", ".",
      "b", "i", "n">>

\* "-rw- 400 isr4300-17.3.bin"
Line_17_3 ==
    <<"-", "r", "w", "-", " ", "4", "0", "0", " ", "i", "s", "r", "4", "3",
      "0", "0", "-", "1", "7", ".", "3", ".", "b", "i", "n">>

\* "-rw- 500 isr4300-17.12.bin"
Line_17_12 ==
    <<"-", "r", "w", "-", " ", "5", "0", "0", " ", "i", "s", "r", "4", "3",
      "0", "0", "-", "1", "7", ".", "1", "2", ".", "b", "i", "n">>

\* lines a directory listing is made of
LinePool ==
    { Line_17_03_04, Line_17_06_01, Line_router, Line_dir, Line_trailing,
      Line_blank, Line_17_3, Line_17_12 }

RECURSIVE JoinLines(_)
\* the lines of ls, each ended by a line feed except the last
JoinLines(ls) ==
    IF ls = << >> THEN << >>
    ELSE IF Len(ls) = 1 THEN ls[1]
         ELSE ls[1] \o << LF >> \o JoinLines(Tail(ls))

\* every answer to "dir bootflash:" of at most MaxLines lines
Listings ==
    { JoinLines(ls) : ls \in UNION { [1..n -> LinePool] : n \in 0..MaxLines } }

\* ".bak"
Cfg_bak_suffix ==
    <<".", "b", "a", "k">>

\* "no "
Cfg_no_prefix ==
    <<"n", "o", " ">>

\* "boot-start-marker"
Cfg_other ==
    <<"b", "o", "o", "t", "-", "s", "t", "a", "r", "t", "-", "m", "a", "r",
      "k", "e", "r">>

\* filenames a boot statement of the device may name
BootFiles == { File_17_03_04, File_17_06_01, File_router }

\* every answer to "show run | include boot system"
Configs ==
    { BootTemplate \o f : f \in BootFiles }
      \cup { BootTemplate \o f \o Cfg_bak_suffix : f \in BootFiles }
      \cup { Cfg_no_prefix \o BootTemplate \o f : f \in { File_17_06_01 } }
      \cup { Cfg_other \o << LF >> \o BootTemplate \o File_17_06_01 \o << LF >> }
      \cup { << >>, Cfg_other, BootTemplate }

\* "Signature Successfully Validated"
Ver_title ==
    <<"S", "i", "g", "n", "a", "t", "u", "r", "e", " ", "S", "u", "c", "c",
      "e", "s", "s", "f", "u", "l", "l", "y", " ", "V", "a", "l", "i", "d",
      "a", "t", "e", "d">>

\* "SIGNATURE SUCCESSFULLY VALIDATED"
Ver_upper ==
    <<"S", "I", "G", "N", "A", "T", "U", "R", "E", " ", "S", "U", "C", "C",
      "E", "S", "S", "F", "U", "L", "L", "Y", " ", "V", "A", "L", "I", "D",
      "A", "T", "E", "D">>

\* "embedded hash signature successfully verified"
Ver_lower ==
    <<"e", "m", "b", "e", "d", "d", "e", "d", " ", "h", "a", "s", "h", " ",
      "s", "i", "g", "n", "a", "t", "u", "r", "e", " ", "s", "u", "c", "c",
      "e", "s", "s", "f", "u", "l", "l", "y", " ", "v", "e", "r", "i", "f",
      "i", "e", "d">>

\* "sIGNATURE sUCCESSFULLY vALIDATED"
Ver_mixed ==
    <<"s", "I", "G", "N", "A", "T", "U", "R", "E", " ", "s", "U", "C", "C",
      "E", "S", "S", "F", "U", "L", "L", "Y", " ", "v", "A", "L", "I", "D",
      "A", "T", "E", "D">>

\* "%Error: Signature verification failed"
Ver_failed ==
    <<"%", "E", "r", "r", "o", "r", ":", " ", "S", "i", "g", "n", "a", "t",
      "u", "r", "e", " ", "v", "e", "r", "i", "f", "i", "c", "a", "t", "i",
      "o", "n", " ", "f", "a", "i", "l", "e", "d">>

\* "Signature was Successfully not found"
Ver_split ==
    <<"S", "i", "g", "n", "a", "t", "u", "r", "e", " ", "w", "a", "s", " ",
      "S", "u", "c", "c", "e", "s", "s", "f", "u", "l", "l", "y", " ", "n",
      "o", "t", " ", "f", "o", "u", "n", "d">>

\* ""
Ver_empty ==
    <<>>

\* every answer to "verify bootflash:<file>"
VerifyOutputs ==
    { Ver_title, Ver_upper, Ver_lower, Ver_mixed, Ver_failed, Ver_split,
      Ver_empty }

\* ---------------------------------------------------------------------
\* State
\* ---------------------------------------------------------------------

VARIABLES
    connection,         \* self.connection: NoConnection or a session handle
    iosbootfile,        \* self.iosbootfile: None or a filename
    call,               \* the method invoked last on the object from outside
    pc,                 \* position inside run_validation, "idle" outside a call
    result,             \* what the last invocation returned, "Raised" if it raised
    connected,          \* what connect() returned in this run
    latest_file_found,  \* local of run_validation
    boot_valid,         \* local of run_validation
    signature_valid,    \* local of run_validation
    cmds,               \* commands sent by this invocation, in order
    stdout,             \* lines printed by this invocation
    log,                \* records logged by this invocation
    dirOutput,          \* answer to the directory listing of this invocation
    cfgOutput,          \* answer to the configuration query of this invocation
    verOutput,          \* answer to the verify command of this invocation
    opens,              \* sessions opened by this invocation
    closes,             \* close calls made by this invocation
    handles,            \* sessions opened on this object so far
    closeCalls,         \* handles close was called on so far, in order
    calls,              \* invocations made by the process so far
    used                \* invocations made on the current object so far

vars ==
    << connection, iosbootfile, call, pc, result, connected,
       latest_file_found, boot_valid, signature_valid, cmds, stdout, log,
       dirOutput, cfgOutput, verOutput, opens, closes, handles, closeCalls,
       calls, used >>

\* self.connection = None
NoConnection == 0

\* read_timeout of the verify command
VerifyReadTimeout == 1000

Bool(b) == IF b THEN "True" ELSE "False"

Record(level, msg) == [ level |-> level, msg |-> msg ]

\* a send_command call: its command string and its read_timeout, if given
Command(text, timeout) == [ text |-> text, timeout |-> timeout ]

\* ways ConnectHandler(**self.device) can end
ConnectOutcomes ==
    { "ok", "NetmikoTimeoutException", "NetmikoAuthenticationException",
      "Exception" }

\* ways connection.disconnect() can end
CloseOutcomes == { "ok", "raise" }

\* ---------------------------------------------------------------------
\* The methods of CiscoISR4331, as functions of the fields they read and
\* of what the transport answers
\* ---------------------------------------------------------------------

\* __init__: the fields set by the constructor
init_fields == [ connection |-> NoConnection, iosbootfile |-> None ]

\* connect() whose last except clause lacks its "return False"
connect_fallthrough(conn, outcome, handle) ==
    IF outcome = "ok"
    THEN [ ret |-> TRUE, connection |-> handle, opened |-> 1,
           log |-> << Record("INFO", "Successfully connected") >> ]
    ELSE IF outcome = "NetmikoTimeoutException"
    THEN [ ret |-> FALSE, connection |-> conn, opened |-> 0,
           log |-> << Record("ERROR", "Timeout error connecting") >> ]
    ELSE IF outcome = "NetmikoAuthenticationException"
    THEN [ ret |-> FALSE, connection |-> conn, opened |-> 0,
           log |-> << Record("ERROR", "Authentication error connecting") >> ]
    ELSE [ ret |-> TRUE, connection |-> conn, opened |-> 0,
           log |-> << Record("ERROR", "Error connecting") >> ]

\* connect() reporting a failed open as success when self.connection still
\* holds a handle
connect_stale(conn, outcome, handle) ==
    IF outcome = "ok"
    THEN [ ret |-> TRUE, connection |-> handle, opened |-> 1,
           log |-> << Record("INFO", "Successfully connected") >> ]
    ELSE IF outcome = "NetmikoTimeoutException"
    THEN [ ret |-> conn # NoConnection, connection |-> conn, opened |-> 0,
           log |-> << Record("ERROR", "Timeout error connecting") >> ]
    ELSE IF outcome = "NetmikoAuthenticationException"
    THEN [ ret |-> conn # NoConnection, connection |-> conn, opened |-> 0,
           log |-> << Record("ERROR", "Authentication error connecting") >> ]
    ELSE [ ret |-> conn # NoConnection, connection |-> conn, opened |-> 0,
           log |-> << Record("ERROR", "Error connecting") >> ]

\* connect(): handle is the session a successful open returns
connect(conn, outcome, handle) ==
    IF outcome = "ok"
    THEN [ ret |-> TRUE, connection |-> handle, opened |-> 1,
           log |-> << Record("INFO", "Successfully connected") >> ]
    ELSE IF outcome = "NetmikoTimeoutException"
    THEN [ ret |-> FALSE, connection |-> conn, opened |-> 0,
           log |-> << Record("ERROR", "Timeout error connecting") >> ]
    ELSE IF outcome = "NetmikoAuthenticationException"
    THEN [ ret |-> FALSE, connection |-> conn, opened |-> 0,
           log |-> << Record("ERROR", "Authentication error connecting") >> ]
    ELSE [ ret |-> FALSE, connection |-> conn, opened |-> 0,
           log |-> << Record("ERROR", "Error connecting") >> ]

\* disconnect() with its test inverted ("if not self.connection")
disconnect_inverted(conn, outcome) ==
    IF conn = NoConnection
    THEN [ closed |-> << >>, raised |-> TRUE, log |-> << >> ]
    ELSE [ closed |-> << >>, raised |-> FALSE, log |-> << >> ]

\* disconnect(): closed lists the handle close is called on; a fault of
\* the close is not caught
disconnect(conn, outcome) ==
    IF conn # NoConnection
    THEN [ closed |-> << conn >>, raised |-> outcome = "raise",
           log |-> IF outcome = "raise" THEN << >>
                   ELSE << Record("INFO", "Disconnected") >> ]
    ELSE [ closed |-> << >>, raised |-> FALSE, log |-> << >> ]

RECURSIVE ios_files_unfiltered(_)
\* the loop without the ".bin" test: the last token of every non-blank line
ios_files_unfiltered(lines) ==
    IF lines = << >> THEN << >>
    ELSE LET toks == split(Head(lines))
         IN  (IF toks # << >> THEN << toks[Len(toks)] >> ELSE << >>)
                \o ios_files_unfiltered(Tail(lines))

RECURSIVE ios_files(_)
\* the loop of find_latest_iosxe_file over output.splitlines(); a line
\* containing ".bin" has a non-blank character, so split()[-1] exists
ios_files(lines) ==
    IF lines = << >> THEN << >>
    ELSE LET line == Head(lines)
             toks == split(line)
         IN  (IF Contains(line, BinSuffix) THEN << toks[Len(toks)] >> ELSE << >>)
                \o ios_files(Tail(lines))

\* the first element when the sort lacks reverse=True
latest_of_ascending(files) == SortAscending(files)[1]

\* the first element of the sorted list
latest_of(files) == SortDescending(files)[1]

\* find_latest_iosxe_file() reporting a failed search as found when a
\* filename of an earlier search is still in self.iosbootfile
find_latest_iosxe_file_stale(file, conn, answer) ==
    IF conn = NoConnection
    THEN [ ret |-> Truthy(file), iosbootfile |-> file, sent |-> << >>,
           log |-> << Record("ERROR", "Error finding latest IOS-XE file") >> ]
    ELSE IF answer = Raised
    THEN [ ret |-> Truthy(file), iosbootfile |-> file,
           sent |-> << Command(DirCommand, << >>) >>,
           log |-> << Record("ERROR", "Error finding latest IOS-XE file") >> ]
    ELSE LET files == ios_files(splitlines(answer))
         IN  IF files # << >>
             THEN [ ret |-> TRUE, iosbootfile |-> latest_of(files),
                    sent |-> << Command(DirCommand, << >>) >>,
                    log |-> << Record("INFO", "Latest IOS-XE image found") >> ]
             ELSE [ ret |-> Truthy(file), iosbootfile |-> file,
                    sent |-> << Command(DirCommand, << >>) >>,
                    log |-> << Record("ERROR", "No IOS-XE .bin files found in bootflash.") >> ]

\* find_latest_iosxe_file(): answer is Raised or the text send_command returns
find_latest_iosxe_file(file, conn, answer) ==
    IF conn = NoConnection
    THEN [ ret |-> FALSE, iosbootfile |-> file, sent |-> << >>,
           log |-> << Record("ERROR", "Error finding latest IOS-XE file") >> ]
    ELSE IF answer = Raised
    THEN [ ret |-> FALSE, iosbootfile |-> file,
           sent |-> << Command(DirCommand, << >>) >>,
           log |-> << Record("ERROR", "Error finding latest IOS-XE file") >> ]
    ELSE LET files == ios_files(splitlines(answer))
         IN  IF files # << >>
             THEN [ ret |-> TRUE, iosbootfile |-> latest_of(files),
                    sent |-> << Command(DirCommand, << >>) >>,
                    log |-> << Record("INFO", "Latest IOS-XE image found") >> ]
             ELSE [ ret |-> FALSE, iosbootfile |-> file,
                    sent |-> << Command(DirCommand, << >>) >>,
                    log |-> << Record("ERROR", "No IOS-XE .bin files found in bootflash.") >> ]

\* the test with the filename left out of the expected line
boot_statement_in_any(file, output) == Contains(output, BootTemplate)

\* expected_boot in output
boot_statement_in(file, output) == Contains(output, BootTemplate \o file)

\* validate_boot_statement()
validate_boot_statement(file, conn, answer) ==
    IF ~Truthy(file)
    THEN [ ret |-> FALSE, sent |-> << >>,
           log |-> << Record("ERROR", "No latest IOS-XE image found to validate boot statement.") >> ]
    ELSE IF conn = NoConnection
    THEN [ ret |-> FALSE, sent |-> << >>,
           log |-> << Record("ERROR", "Error validating boot statement") >> ]
    ELSE IF answer = Raised
    THEN [ ret |-> FALSE, sent |-> << Command(ShowCommand, << >>) >>,
           log |-> << Record("ERROR", "Error validating boot statement") >> ]
    ELSE IF boot_statement_in(file, answer)
    THEN [ ret |-> TRUE, sent |-> << Command(ShowCommand, << >>) >>,
           log |-> << Record("INFO", "Boot statement matches the latest IOS-XE image") >> ]
    ELSE [ ret |-> FALSE, sent |-> << Command(ShowCommand, << >>) >>,
           log |-> << Record("ERROR", "Boot statement does not match the latest image") >> ]

\* the search without .lower()
marker_in_cased(output) == Contains(output, SuccessMarker)

\* "signature successfully" in output.lower()
marker_in(output) == Contains(Lower(output), SuccessMarker)

\* the failure branch without its print
print_error_msg_none(file) == << >>

\* the failure branch printing the message a second time
print_error_msg_twice(file) == << file, file >>

\* print(error_msg): the line put on standard output names the file
print_error_msg(file) == << file >>

\* verify_ios_image_signature(): printed lists the files named on stdout
verify_ios_image_signature(file, conn, answer) ==
    IF ~Truthy(file)
    THEN [ ret |-> FALSE, sent |-> << >>, printed |-> << >>,
           log |-> << Record("ERROR", "No latest IOS-XE image found to verify.") >> ]
    ELSE IF conn = NoConnection
    THEN [ ret |-> FALSE, sent |-> << >>, printed |-> << >>,
           log |-> << Record("ERROR", "Error during image verification") >> ]
    ELSE IF answer = Raised
    THEN [ ret |-> FALSE, printed |-> << >>,
           sent |-> << Command(VerifyTemplate \o file, << VerifyReadTimeout >>) >>,
           log |-> << Record("ERROR", "Error during image verification") >> ]
    ELSE IF marker_in(answer)
    THEN [ ret |-> TRUE, printed |-> << >>,
           sent |-> << Command(VerifyTemplate \o file, << VerifyReadTimeout >>) >>,
           log |-> << Record("INFO", "Image verification successful.") >> ]
    ELSE [ ret |-> FALSE, printed |-> print_error_msg(file),
           sent |-> << Command(VerifyTemplate \o file, << VerifyReadTimeout >>) >>,
           log |-> << Record("ERROR", "Error: Signature verification failed") >> ]

\* ---------------------------------------------------------------------
\* Transitions
\* ---------------------------------------------------------------------

Range(s) == { s[i] : i \in 1..Len(s) }

\* the send_command calls of sent as the transport sees them: on which
\* session, and whether close had been called on it before
Issue(sent) ==
    [ i \in 1..Len(sent) |->
        [ text |-> sent[i].text, timeout |-> sent[i].timeout,
          on |-> connection, live |-> connection \notin Range(closeCalls) ] ]

Init ==
    /\ connection = init_fields.connection
    /\ iosbootfile = init_fields.iosbootfile
    /\ call = "none"
    /\ pc = "idle"
    /\ result = "unset"
    /\ connected = "unset"
    /\ latest_file_found = "unset"
    /\ boot_valid = "unset"
    /\ signature_valid = "unset"
    /\ cmds = << >>
    /\ stdout = << >>
    /\ log = << >>
    /\ dirOutput = NotSent
    /\ cfgOutput = NotSent
    /\ verOutput = NotSent
    /\ opens = 0
    /\ closes = 0
    /\ handles = 0
    /\ closeCalls = << >>
    /\ calls = 0
    /\ used = 0

\* a caller invokes method on the object: nothing of an earlier invocation
\* is left but the fields of the object
Enter(method) ==
    /\ pc = "idle"
    /\ calls < MaxCalls
    /\ calls' = calls + 1
    /\ used' = used + 1
    /\ call' = method
    /\ connected' = "unset"
    /\ latest_file_found' = "unset"
    /\ boot_valid' = "unset"
    /\ signature_valid' = "unset"
    /\ dirOutput' = NotSent
    /\ opens' = 0
    /\ closes' = 0

\* run_validation() is called
run_validation ==
    /\ Enter("run_validation")
    /\ pc' = "connect"
    /\ result' = "unset"
    /\ cmds' = << >>
    /\ stdout' = << >>
    /\ log' = << >>
    /\ cfgOutput' = NotSent
    /\ verOutput' = NotSent
    /\ UNCHANGED << connection, iosbootfile, handles, closeCalls >>

\* line 114 with an else branch that calls disconnect() before it returns
run_validation_connect_closes ==
    /\ pc = "connect"
    /\ \E outcome \in ConnectOutcomes :
         LET r == connect(connection, outcome, handles + 1)
         IN  /\ connection' = r.connection
             /\ handles' = handles + r.opened
             /\ opens' = opens + r.opened
             /\ connected' = Bool(r.ret)
             /\ IF r.ret
                THEN /\ log' = log \o r.log
                     /\ pc' = "find"
                     /\ result' = result
                ELSE /\ log' = log \o r.log
                            \o << Record("ERROR", "Connection to device failed, cannot run validation") >>
                     /\ pc' = "disconnect"
                     /\ result' = result
    /\ UNCHANGED << iosbootfile, call, latest_file_found, boot_valid,
                    signature_valid, cmds, stdout, dirOutput, cfgOutput,
                    verOutput, closes, closeCalls, calls, used >>

\* line 114, and the else branch of lines 136-138
run_validation_connect ==
    /\ pc = "connect"
    /\ \E outcome \in ConnectOutcomes :
         LET r == connect(connection, outcome, handles + 1)
         IN  /\ connection' = r.connection
             /\ handles' = handles + r.opened
             /\ opens' = opens + r.opened
             /\ connected' = Bool(r.ret)
             /\ IF r.ret
                THEN /\ log' = log \o r.log
                     /\ pc' = "find"
                     /\ result' = result
                ELSE /\ log' = log \o r.log
                            \o << Record("ERROR", "Connection to device failed, cannot run validation") >>
                     /\ pc' = "idle"
                     /\ result' = "False"
    /\ UNCHANGED << iosbootfile, call, latest_file_found, boot_valid,
                    signature_valid, cmds, stdout, dirOutput, cfgOutput,
                    verOutput, closes, closeCalls, calls, used >>

\* lines 115-116 without the test of line 116: the boot statement is
\* validated whatever image discovery returned
run_validation_find_continues ==
    /\ pc = "find"
    /\ \E answer \in { Raised } \cup Listings :
         LET r == find_latest_iosxe_file(iosbootfile, connection, answer)
         IN  /\ iosbootfile' = r.iosbootfile
             /\ cmds' = cmds \o Issue(r.sent)
             /\ dirOutput' = IF r.sent = << >> THEN NotSent ELSE answer
             /\ latest_file_found' = Bool(r.ret)
             /\ IF r.ret
                THEN /\ log' = log \o r.log
                     /\ pc' = "boot"
                ELSE /\ log' = log \o r.log
                     /\ pc' = "boot"
    /\ UNCHANGED << connection, call, result, connected, boot_valid,
                    signature_valid, stdout, cfgOutput, verOutput, opens,
                    closes, handles, closeCalls, calls, used >>

\* lines 115-116, and the logging of the else branch of line 133
run_validation_find ==
    /\ pc = "find"
    /\ \E answer \in { Raised } \cup Listings :
         LET r == find_latest_iosxe_file(iosbootfile, connection, answer)
         IN  /\ iosbootfile' = r.iosbootfile
             /\ cmds' = cmds \o Issue(r.sent)
             /\ dirOutput' = IF r.sent = << >> THEN NotSent ELSE answer
             /\ latest_file_found' = Bool(r.ret)
             /\ IF r.ret
                THEN /\ log' = log \o r.log
                     /\ pc' = "boot"
                ELSE /\ log' = log \o r.log
                            \o << Record("ERROR", "Validation failed: No valid IOS-XE image found") >>
                     /\ pc' = "disconnect"
    /\ UNCHANGED << connection, call, result, connected, boot_valid,
                    signature_valid, stdout, cfgOutput, verOutput, opens,
                    closes, handles, closeCalls, calls, used >>

\* lines 117-118, and the logging of the else branch of line 129
run_validation_boot ==
    /\ pc = "boot"
    /\ \E answer \in { Raised } \cup Configs :
         LET r == validate_boot_statement(iosbootfile, connection, answer)
         IN  /\ cmds' = cmds \o Issue(r.sent)
             /\ cfgOutput' = IF r.sent = << >> THEN NotSent ELSE answer
             /\ boot_valid' = Bool(r.ret)
             /\ IF r.ret
                THEN /\ log' = log \o r.log
                     /\ pc' = "verify"
                ELSE /\ log' = log \o r.log
                            \o << Record("ERROR", "Validation failed: Boot statement does not match") >>
                     /\ pc' = "disconnect"
    /\ UNCHANGED << connection, iosbootfile, call, result, connected,
                    latest_file_found, signature_valid, stdout, dirOutput,
                    verOutput, opens, closes, handles, closeCalls, calls, used >>

\* line 119
run_validation_verify ==
    /\ pc = "verify"
    /\ \E answer \in { Raised } \cup VerifyOutputs :
         LET r == verify_ios_image_signature(iosbootfile, connection, answer)
         IN  /\ cmds' = cmds \o Issue(r.sent)
             /\ verOutput' = IF r.sent = << >> THEN NotSent ELSE answer
             /\ signature_valid' = Bool(r.ret)
             /\ stdout' = stdout \o r.printed
             /\ log' = log \o r.log
             /\ pc' = "disconnect"
    /\ UNCHANGED << connection, iosbootfile, call, result, connected,
                    latest_file_found, boot_valid, dirOutput, cfgOutput,
                    opens, closes, handles, closeCalls, calls, used >>

\* what run_validation returns after the disconnect of lines 120, 130, 134
returned(found, valid, signed) ==
    IF found = "True"
    THEN IF valid = "True"
         THEN IF signed = "True" THEN "True" ELSE "False"
         ELSE "False"
    ELSE "False"

\* the record run_validation logs after the disconnect of line 120
final_log(found, valid, signed) ==
    IF found = "True" /\ valid = "True"
    THEN IF signed = "True"
         THEN << Record("INFO", "Validation complete: All checks passed successfully") >>
         ELSE << Record("ERROR", "Validation failed: Signature verification failed") >>
    ELSE << >>

\* the disconnect() of line 120, 130 or 134 and the return after it
run_validation_disconnect ==
    /\ pc = "disconnect"
    /\ \E outcome \in CloseOutcomes :
         LET r == disconnect(connection, outcome)
         IN  /\ closeCalls' = closeCalls \o r.closed
             /\ closes' = closes + Len(r.closed)
             /\ IF r.raised
                THEN /\ result' = "Raised"
                     /\ log' = log \o r.log
                ELSE /\ result' = returned(latest_file_found, boot_valid, signature_valid)
                     /\ log' = log \o r.log
                            \o final_log(latest_file_found, boot_valid, signature_valid)
    /\ pc' = "idle"
    /\ UNCHANGED << connection, iosbootfile, call, connected,
                    latest_file_found, boot_valid, signature_valid, cmds,
                    stdout, dirOutput, cfgOutput, verOutput, opens, handles,
                    calls, used >>

\* validate_boot_statement() called on the object by itself
call_validate_boot_statement ==
    /\ Enter("validate_boot_statement")
    /\ \E answer \in { Raised } \cup Configs :
         LET r == validate_boot_statement(iosbootfile, connection, answer)
         IN  /\ cmds' = Issue(r.sent)
             /\ cfgOutput' = IF r.sent = << >> THEN NotSent ELSE answer
             /\ log' = r.log
             /\ result' = Bool(r.ret)
    /\ verOutput' = NotSent
    /\ stdout' = << >>
    /\ pc' = "idle"
    /\ UNCHANGED << connection, iosbootfile, handles, closeCalls >>

\* verify_ios_image_signature() called on the object by itself
call_verify_ios_image_signature ==
    /\ Enter("verify_ios_image_signature")
    /\ \E answer \in { Raised } \cup VerifyOutputs :
         LET r == verify_ios_image_signature(iosbootfile, connection, answer)
         IN  /\ cmds' = Issue(r.sent)
             /\ verOutput' = IF r.sent = << >> THEN NotSent ELSE answer
             /\ log' = r.log
             /\ stdout' = r.printed
             /\ result' = Bool(r.ret)
    /\ cfgOutput' = NotSent
    /\ pc' = "idle"
    /\ UNCHANGED << connection, iosbootfile, handles, closeCalls >>

\* a construction that leaves the fields of the earlier object in place, as
\* attributes kept on the class would
construct_shared ==
    /\ pc = "idle"
    /\ used > 0
    /\ used' = 0
    /\ call' = "none"
    /\ result' = "unset"
    /\ connected' = "unset"
    /\ latest_file_found' = "unset"
    /\ boot_valid' = "unset"
    /\ signature_valid' = "unset"
    /\ cmds' = << >>
    /\ stdout' = << >>
    /\ log' = << >>
    /\ dirOutput' = NotSent
    /\ cfgOutput' = NotSent
    /\ verOutput' = NotSent
    /\ opens' = 0
    /\ closes' = 0
    /\ UNCHANGED << connection, iosbootfile, pc, handles, closeCalls, calls >>

\* the caller constructs a CiscoISR4331 for another device and goes on
\* with it; the sessions of the transport are those of the whole process
construct ==
    /\ pc = "idle"
    /\ used > 0
    /\ connection' = init_fields.connection
    /\ iosbootfile' = init_fields.iosbootfile
    /\ used' = 0
    /\ call' = "none"
    /\ result' = "unset"
    /\ connected' = "unset"
    /\ latest_file_found' = "unset"
    /\ boot_valid' = "unset"
    /\ signature_valid' = "unset"
    /\ cmds' = << >>
    /\ stdout' = << >>
    /\ log' = << >>
    /\ dirOutput' = NotSent
    /\ cfgOutput' = NotSent
    /\ verOutput' = NotSent
    /\ opens' = 0
    /\ closes' = 0
    /\ UNCHANGED << pc, handles, closeCalls, calls >>

Next ==
    \/ construct
    \/ run_validation
    \/ run_validation_connect
    \/ run_validation_find
    \/ run_validation_boot
    \/ run_validation_verify
    \/ run_validation_disconnect
    \/ call_validate_boot_statement
    \/ call_verify_ios_image_signature

Spec == Init /\ [][Next]_vars

TypeOK ==
    /\ connection \in 0..MaxCalls
    /\ pc \in { "idle", "connect", "find", "boot", "verify", "disconnect" }
    /\ result \in { "unset", "True", "False", "Raised" }
    /\ connected \in { "unset", "True", "False" }
    /\ latest_file_found \in { "unset", "True", "False" }
    /\ boot_valid \in { "unset", "True", "False" }
    /\ signature_valid \in { "unset", "True", "False" }
    /\ opens \in 0..1
    /\ closes \in 0..1
    /\ handles \in 0..MaxCalls
    /\ calls \in 0..MaxCalls
    /\ used \in 0..calls

\* ---------------------------------------------------------------------
\* Properties
\* ---------------------------------------------------------------------

\* an invocation of run_validation is in progress or was the last one made
InRun == call = "run_validation"

\* the last invocation made was run_validation and it has ended
RunEnded == InRun /\ pc = "idle"

\* all four steps of this run succeeded
AllStepsPassed ==
    /\ connected = "True"
    /\ latest_file_found = "True"
    /\ boot_valid = "True"
    /\ signature_valid = "True"

\* the lines of text that contain ".bin"
BinLines(text) ==
    { l \in Range(splitlines(text)) : Contains(l, BinSuffix) }

\* the final whitespace-delimited token of a line
LastToken(line) == split(line)[Len(split(line))]

\* x is the greatest string of S
IsGreatest(x, S) == x \in S /\ \A y \in S : y = x \/ StrLess(y, x)

\* the order of the elements of s turned around
Reverse(s) == [ i \in 1..Len(s) |-> s[Len(s) + 1 - i] ]

\* text has a line that is exactly l
HasLine(text, l) == \E i \in 1..Len(splitlines(text)) : splitlines(text)[i] = l

\* a and b are the same character, or the two cases of one letter
SameLetter(a, b) ==
    \/ a = b
    \/ \E k \in 1..26 : { a, b } = { UpperLetters[k], LowerLetters[k] }

\* sub occurs in s when the case of letters is ignored
ContainsIgnoreCase(s, sub) ==
    \E i \in 0..(Len(s) - Len(sub)) :
        \A j \in 1..Len(sub) : SameLetter(s[i + j], sub[j])

\* log has a record of level ERROR
ErrorLogged == \E i \in 1..Len(log) : log[i].level = "ERROR"

\* C1: in a run of run_validation that opened its session, close is called
\* exactly once, on that session, by the time the run ends, whichever step
\* failed; a run never opens more than one session nor closes more than it
\* opened, so at the end of every run the open count equals the close count.
C1_ClosedExactlyOnce ==
    InRun =>
        /\ opens <= 1
        /\ closes <= opens
        /\ (pc = "idle" => closes = opens)
        /\ (closes = 1 => closeCalls[Len(closeCalls)] = connection)
        /\ (opens = 1 /\ pc \in { "find", "boot", "verify", "disconnect" }
              => closes = 0)

\* C1 witness: a run that opened its session, failed at the boot statement
\* and ended with one close.
C1_Witness ==
    /\ RunEnded
    /\ opens = 1
    /\ boot_valid = "False"
    /\ closes = 1

\* C2 (as claimed): no invocation of run_validation ends by raising.
C2_NeverRaises == InRun => result # "Raised"

\* C3 (as claimed): a run that has ended returned True when all four steps
\* succeeded and returned False in every other case.
C3_PassIffAllSteps ==
    RunEnded => result = (IF AllStepsPassed THEN "True" ELSE "False")

\* C4: when the open of the session failed, the run has ended with result
\* False, no step after connect was run, no command was issued and close
\* was not called.
C4_ConnectFailureShortCircuits ==
    (InRun /\ pc # "connect" /\ opens = 0) =>
        /\ pc = "idle"
        /\ connected = "False"
        /\ result = "False"
        /\ cmds = << >>
        /\ closes = 0
        /\ latest_file_found = "unset"
        /\ boot_valid = "unset"
        /\ signature_valid = "unset"

\* C4 witness: a later run whose open failed while the object still holds
\* the session of an earlier run.
C4_Witness ==
    /\ RunEnded
    /\ opens = 0
    /\ connection # NoConnection
    /\ result = "False"

\* C5: when the directory listing has no line containing ".bin", image
\* discovery reports False, the directory command is the only command of
\* the run, the later steps are not run and the run does not pass; and the
\* step that receives such a listing leaves iosbootfile as it was.
C5_NoImageFound ==
    /\ [](InRun /\ IsText(dirOutput) /\ BinLines(dirOutput) = { } =>
            /\ latest_file_found = "False"
            /\ pc \in { "disconnect", "idle" }
            /\ Len(cmds) = 1
            /\ cmds[1].text = DirCommand
            /\ cfgOutput = NotSent
            /\ verOutput = NotSent
            /\ boot_valid = "unset"
            /\ signature_valid = "unset"
            /\ result # "True"
            /\ (pc = "idle" => result \in { "False", "Raised" }))
    /\ [][pc = "find" /\ IsText(dirOutput') /\ BinLines(dirOutput') = { }
            => iosbootfile' = iosbootfile]_vars

\* C5 witness: a run that ended after a listing holding a directory line
\* only, with no image selected.
C5_Witness ==
    /\ RunEnded
    /\ dirOutput = Line_dir
    /\ latest_file_found = "False"
    /\ iosbootfile = None

C7_PassIffExactLine ==
    (InRun /\ IsText(cfgOutput)) =>
        (boot_valid = "True" <=> HasLine(cfgOutput, BootTemplate \o iosbootfile))

\* C8: when the verify command returned text, signature verification
\* passes exactly when the text contains "signature successfully" with the
\* case of letters ignored.
C8_MarkerIgnoringCase ==
    /\ (InRun /\ IsText(verOutput)) =>
          (signature_valid = "True"
              <=> ContainsIgnoreCase(verOutput, SuccessMarker))
    /\ (call = "verify_ios_image_signature" /\ IsText(verOutput)) =>
          (result = "True" <=> ContainsIgnoreCase(verOutput, SuccessMarker))

\* C8 witness: the phrase in mixed case passed.
C8_Witness ==
    /\ InRun
    /\ verOutput = Ver_mixed
    /\ signature_valid = "True"

\* verify_ios_image_signature has reported failure in this invocation
SignatureFailed ==
    \/ InRun /\ signature_valid = "False"
    \/ call = "verify_ios_image_signature" /\ result = "False"

\* C9 (as claimed): whenever signature verification reports failure, a
\* message has been written to standard output.
C9_FailureAlwaysPrinted == SignatureFailed => stdout # << >>

\* C9 (amended): whenever signature verification reports failure an ERROR
\* record is logged; the message naming the image is written to standard
\* output when the verify command returned text, which then lacks the
\* phrase, and nothing is written when the command raised or was not sent.
C9_MismatchPrinted ==
    SignatureFailed =>
        /\ ErrorLogged
        /\ (IsText(verOutput) =>
              /\ stdout = << iosbootfile >>
              /\ ~ContainsIgnoreCase(verOutput, SuccessMarker))
        /\ (~IsText(verOutput) => stdout = << >>)

\* C9 witness: the verify command answered with a failure text and the
\* message for the selected image is on standard output.
C9_Witness ==
    /\ InRun
    /\ signature_valid = "False"
    /\ verOutput = Ver_failed
    /\ stdout = << iosbootfile >>

\* C10: a run of run_validation writes at most one message to standard
\* output, and writes one only when its signature verification failed: a
\* run that failed earlier, or passed, has written nothing.
C10_OnlySignatureFailurePrints ==
    InRun =>
        /\ Len(stdout) <= 1
        /\ (stdout # << >> => signature_valid = "False")
        /\ (signature_valid # "False" => stdout = << >>)

\* C10 witness: a run that ended with a signature failure and exactly one
\* message written.
C10_Witness ==
    /\ RunEnded
    /\ signature_valid = "False"
    /\ Len(stdout) = 1
    /\ result = "False"

\* the handles self.connection can hold: none, the one it holds, a new one
SomeConnections == { NoConnection, connection, handles + 1 }

\* C11: with iosbootfile None or empty, validate_boot_statement and
\* verify_ios_image_signature return False, send no command and print
\* nothing, for every connection and whatever the device would answer; a
\* call made on the object in such a state has returned False, not raised,
\* with no command issued and an ERROR record logged.
C11_FailClosedWithoutImage ==
    /\ \A file \in { None, << >> } : \A conn \in SomeConnections :
          /\ \A answer \in { Raised } \cup Configs :
                LET r == validate_boot_statement(file, conn, answer)
                IN  r.ret = FALSE /\ r.sent = << >>
          /\ \A answer \in { Raised } \cup VerifyOutputs :
                LET r == verify_ios_image_signature(file, conn, answer)
                IN  r.ret = FALSE /\ r.sent = << >> /\ r.printed = << >>
    /\ (/\ call \in { "validate_boot_statement", "verify_ios_image_signature" }
        /\ ~Truthy(iosbootfile))
          => /\ result = "False"
             /\ cmds = << >>
             /\ stdout = << >>
             /\ ErrorLogged

\* C11 witness: validate_boot_statement called with no image selected on an
\* object that still holds the session of an earlier run returned False.
C11_Witness ==
    /\ call = "validate_boot_statement"
    /\ iosbootfile = None
    /\ connection # NoConnection
    /\ result = "False"
    /\ cmds = << >>

\* the command strings of cmds, in order
Texts(sent) == [ i \in 1..Len(sent) |-> sent[i].text ]

\* The commands and the result of a run of run_validation on a newly
\* constructed object, from the answers of the transport alone: whether
\* the open succeeded, the answers d, c, v to the three commands and
\* whether the close raised.
FreshRun(ok, d, c, v, closeRaised) ==
    IF ~ok THEN [ texts |-> << >>, result |-> "False" ]
    ELSE LET h == 1
             f == find_latest_iosxe_file(init_fields.iosbootfile, h, d)
             b == validate_boot_statement(f.iosbootfile, h, c)
             g == verify_ios_image_signature(f.iosbootfile, h, v)
             sent == f.sent \o (IF f.ret
                                THEN b.sent \o (IF b.ret THEN g.sent ELSE << >>)
                                ELSE << >>)
         IN  [ texts |-> Texts(sent),
               result |-> IF closeRaised THEN "Raised"
                          ELSE Bool(f.ret /\ b.ret /\ g.ret) ]

\* a run that has ended issued the commands and gave the result that a
\* run on a new object gives for the same answers of its own transport
SameAsFreshRun ==
    RunEnded =>
        LET fresh == FreshRun(opens = 1, dirOutput, cfgOutput, verOutput,
                              result = "Raised")
        IN  Texts(cmds) = fresh.texts /\ result = fresh.result

\* C12 (as claimed): every run starts with no session and no selected
\* image in the fields of its object, and its commands and result are
\* determined by the answers of its own transport.
C12_NothingCarriedOver ==
    /\ (InRun /\ pc = "connect") =>
          (connection = NoConnection /\ iosbootfile = None)
    /\ SameAsFreshRun

\* C12 (amended): a run on a newly constructed object starts with no
\* session and no selected image; every run, also one on an object used
\* before, issues the commands and returns the result that the answers of
\* its own transport determine.
C12_RunsIndependent ==
    /\ (InRun /\ pc = "connect" /\ used = 1) =>
          (connection = NoConnection /\ iosbootfile = None)
    /\ SameAsFreshRun

\* C12 witness: a run on a second object passed after an earlier object of
\* the process had opened a session.
C12_Witness ==
    /\ RunEnded
    /\ used = 1
    /\ handles = 2
    /\ result = "True"

\* the decimal digits, in order of value
Digits == << "0", "1", "2", "3", "4", "5", "6", "7", "8", "9" >>

IsDigit(c) == \E i \in 1..10 : Digits[i] = c

DigitValue(c) == (CHOOSE i \in 1..10 : Digits[i] = c) - 1

RECURSIVE NumberFields(_, _, _)
\* the maximal runs of digits of s read as numbers; acc is the value of the
\* run being read when inRun holds
NumberFields(s, acc, inRun) ==
    IF s = << >> THEN (IF inRun THEN << acc >> ELSE << >>)
    ELSE IF IsDigit(Head(s))
         THEN NumberFields(Tail(s),
                           (IF inRun THEN acc ELSE 0) * 10 + DigitValue(Head(s)),
                           TRUE)
         ELSE (IF inRun THEN << acc >> ELSE << >>)
                 \o NumberFields(Tail(s), 0, FALSE)

\* the version fields of a filename, as numbers
Version(name) == NumberFields(name, 0, FALSE)

\* a filename without its digits: names of one naming scheme share it
Stem(name) == SelectSeq(name, LAMBDA c : ~IsDigit(c))

\* version a is lower than version b, fields compared as numbers
VersionLess(a, b) ==
    \E i \in 1..Len(b) :
        /\ i - 1 <= Len(a)
        /\ SubSeq(a, 1, i - 1) = SubSeq(b, 1, i - 1)
        /\ \/ i = Len(a) + 1
           \/ i <= Len(a) /\ a[i] < b[i]

\* C13 (as claimed): the selected image has the highest version number,
\* fields compared as numbers, among the listed .bin files of its naming
\* scheme, zero-padded or not.
C13_SelectsHighestVersion ==
    (InRun /\ IsText(dirOutput) /\ latest_file_found = "True") =>
        \A l \in BinLines(dirOutput) :
            Stem(LastToken(l)) = Stem(iosbootfile)
                => ~VersionLess(Version(iosbootfile), Version(LastToken(l)))

\* the commands of a whole run, in their order in run_validation
CommandOrder == << DirCommand, ShowCommand, VerifyTemplate \o iosbootfile >>

\* s is an initial part of t
IsPrefix(s, t) == Len(s) <= Len(t) /\ SubSeq(t, 1, Len(s)) = s

\* C14: the commands of a run are an initial part of directory listing,
\* configuration query, verify, each sent at most once; the query is sent,
\* and boot validation run, only after image discovery passed, and the
\* verify command only after boot validation passed; the command of the
\* first failing step is the last one, close is called after it, and no
\* command follows the close.  Commands are only ever added at the end,
\* one at a time.
C14_CommandOrder ==
    /\ [](InRun =>
            /\ IsPrefix(Texts(cmds), CommandOrder)
            /\ (Len(cmds) >= 2 => latest_file_found = "True")
            /\ (Len(cmds) >= 3 => boot_valid = "True")
            /\ (boot_valid # "unset" => latest_file_found = "True")
            /\ (signature_valid # "unset" => boot_valid = "True")
            /\ (latest_file_found = "False" => Len(cmds) = 1)
            /\ (boot_valid = "False" => Len(cmds) = 2)
            /\ (signature_valid # "unset" => Len(cmds) = 3)
            /\ (closes = 1 => pc = "idle"))
    /\ [][(InRun /\ calls' = calls /\ call' = call) =>
            /\ IsPrefix(cmds, cmds')
            /\ Len(cmds') <= Len(cmds) + 1
            /\ (closes = 1 => cmds' = cmds)]_vars

\* C14 witness: the configuration query raised: it is the second and last
\* command of the run, and the session was closed after it.
C14_Witness ==
    /\ RunEnded
    /\ cfgOutput = Raised
    /\ Texts(cmds) = << DirCommand, ShowCommand >>
    /\ closes = 1

\* the part of a verify command after "verify bootflash:"
VerifyTarget(text) == SubSeq(text, Len(VerifyTemplate) + 1, Len(text))

\* C15: after image discovery passed, iosbootfile is the filename that
\* find_latest_iosxe_file chose from the listing of this run and it stays so
\* until the run ends; boot validation passed or failed according to
\* whether the configuration text holds the boot line of that filename and
\* the verify command sent names that filename.
C15_SelectedImageStable ==
    /\ [](InRun /\ latest_file_found = "True" =>
            /\ IsText(dirOutput)
            /\ iosbootfile = latest_of(ios_files(splitlines(dirOutput)))
            /\ (IsText(cfgOutput) =>
                  (boot_valid = "True"
                      <=> Contains(cfgOutput, BootTemplate \o iosbootfile)))
            /\ (Len(cmds) = 3 =>
                  /\ SubSeq(cmds[3].text, 1, Len(VerifyTemplate)) = VerifyTemplate
                  /\ VerifyTarget(cmds[3].text) = iosbootfile))
    /\ [][(InRun /\ pc \in { "boot", "verify", "disconnect" })
            => iosbootfile' = iosbootfile]_vars

\* C15 witness: a run selected router-boot-03.bin, found its boot line and
\* sent the verify command for it.
C15_Witness ==
    /\ InRun
    /\ iosbootfile = File_router
    /\ boot_valid = "True"
    /\ Len(cmds) = 3
    /\ VerifyTarget(cmds[3].text) = File_router

\* the filenames the listing of this invocation offers
OwnCandidates ==
    IF IsText(dirOutput)
    THEN { LastToken(l) : l \in BinLines(dirOutput) }
    ELSE { }

\* the listing command of this invocation raised or listed no .bin line
NothingListed == dirOutput = Raised \/ (IsText(dirOutput) /\ OwnCandidates = { })

\* C16: in every invocation of run_validation, also a later one on an
\* object whose iosbootfile still holds the choice of an earlier one, a
\* configuration query or verify command is sent only after the listing of
\* this invocation offered a filename, the boot line found and the verify
\* command name a filename of this listing, and an invocation whose
\* listing raised or had no .bin line sends neither command and runs
\* neither later step.
C16_NoStaleImageUsed ==
    InRun =>
        /\ (Len(cmds) >= 2 \/ boot_valid # "unset" \/ signature_valid # "unset")
              => iosbootfile \in OwnCandidates
        /\ (boot_valid = "True" =>
              \E f \in OwnCandidates : Contains(cfgOutput, BootTemplate \o f))
        /\ (Len(cmds) = 3 => VerifyTarget(cmds[3].text) \in OwnCandidates)
        /\ (NothingListed =>
              /\ Len(cmds) = 1
              /\ cfgOutput = NotSent
              /\ verOutput = NotSent
              /\ boot_valid = "unset"
              /\ signature_valid = "unset"
              /\ result # "True")

\* C16 witness: a second invocation on the same object, whose listing
\* command raised while the filename of the first was still in
\* iosbootfile, ended with the listing as its only command.
C16_Witness ==
    /\ RunEnded
    /\ used = 2
    /\ dirOutput = Raised
    /\ Truthy(iosbootfile)
    /\ Len(cmds) = 1

\* C17: every command of a run of run_validation was sent on the session
\* that this run opened, the newest of the process and the one held in
\* self.connection, before close was called on it; a run that is still
\* connecting, or whose connect failed, has sent no command.
C17_CommandsOnLiveSession ==
    InRun =>
        /\ \A i \in 1..Len(cmds) :
              /\ opens = 1
              /\ connected = "True"
              /\ cmds[i].on # NoConnection
              /\ cmds[i].on = connection
              /\ cmds[i].on = handles
              /\ cmds[i].live
        /\ (pc = "connect" \/ opens = 0) => cmds = << >>

\* C17 witness: the second run on an object sent its three commands on
\* the session it opened itself, not on the closed one of the first run.
C17_Witness ==
    /\ InRun
    /\ used = 2
    /\ closeCalls = << 1 >>
    /\ Len(cmds) = 3
    /\ cmds[3].on = 2
    /\ cmds[3].live

\* how many times close was called on handle h
CloseCount(h) == Cardinality({ i \in 1..Len(closeCalls) : closeCalls[i] = h })

\* C18: close is called only on handles a successful open returned and
\* never twice on one; outside a run every handle opened so far has been
\* closed exactly once, and inside a run the only handle not yet closed is
\* the one this run opened.  A run whose connect failed calls no close,
\* and a run that closes, closes the handle it opened itself.
C18_EachHandleClosedOnce ==
    /\ \A i \in 1..Len(closeCalls) : closeCalls[i] \in 1..handles
    /\ \A h \in 1..handles :
          /\ CloseCount(h) <= 1
          /\ (pc = "idle" => CloseCount(h) = 1)
          /\ (CloseCount(h) = 0 =>
                InRun /\ opens = 1 /\ h = handles /\ h = connection)
    /\ (InRun /\ opens = 0) => closes = 0
    /\ (InRun /\ closes = 1) =>
          (opens = 1 /\ closeCalls[Len(closeCalls)] = handles)

\* C18 witness: two runs on the same object both connected, and each
\* closed its own handle once.
C18_Witness ==
    /\ RunEnded
    /\ used = 2
    /\ opens = 1
    /\ closeCalls = << 1, 2 >>

====
